---- MODULE Spec2Model ----
(***************************************************************************)
(* Model of src/src/main.rs: the Alpha Vantage response parser, the        *)
(* feature/label builder, the accuracy evaluator and the pipeline that     *)
(* main runs over them (fetch, preprocess, class check, train, predict,    *)
(* accuracy, plots).                                                       *)
(*                                                                         *)
(* Representation.                                                         *)
(*  - A serde_json::Value is a record [k, s, m]: k is the kind ("null",    *)
(*    "str", "num", "obj"), s the characters of a string, m the members of *)
(*    an object in the map's iteration order (keys are unique).            *)
(*  - Text is a sequence of one-character strings, so that str::parse is   *)
(*    computed from the characters.                                        *)
(*  - An f64 that holds a price or a volume is the integer it equals; the  *)
(*    f64 that calculate_accuracy returns is a record [k, n, d]: the       *)
(*    reduced fraction n/d, or NaN.                                        *)
(*  - linfa's GaussianNb (fit, predict) is a library: fit returns Ok or    *)
(*    Err, predict returns one label of the model's classes per row.       *)
(***************************************************************************)
EXTENDS Integers, Sequences, FiniteSets, TLC

\* Largest number of time-series entries of a response, and of observations
\* handed to preprocess_data.
MaxEntries == 3

\* Largest length of a label vector handed to calculate_accuracy and
\* train_model directly.
MaxLen == 4

VARIABLES
    pc,           \* position in main, or the function a test calls
    response,     \* the serde_json::Value received
    stock_data,   \* Vec<StockData>
    features,     \* Array2<f64>: a sequence of rows
    target,       \* Array1<usize>
    model,        \* the GaussianNb fitted, or NoModel
    predictions,  \* Array1<usize>
    accuracy,     \* f64, or NoF64 before it is computed
    outcome,      \* "running", "Ok", "Err" or "panic"
    err,          \* the CustomError (or panic message) of the outcome
    stdout,       \* the lines printed
    files         \* the image files written

vars == <<pc, response, stock_data, features, target, model, predictions,
          accuracy, outcome, err, stdout, files>>

----------------------------------------------------------------------------
(* serde_json::Value *)

JNull == [k |-> "null", s |-> <<>>, m |-> <<>>]

JStr(t) == [k |-> "str", s |-> t, m |-> <<>>]

JNum == [k |-> "num", s |-> <<>>, m |-> <<>>]

JObj(members) == [k |-> "obj", s |-> <<>>, m |-> members]

Member(key, val) == [key |-> key, val |-> val]

\* Value's Index<&str>: the member of that key, Null when the value is no
\* object or has no such member.
JIndex(v, key) ==
    IF v.k = "obj" /\ \E i \in 1..Len(v.m) : v.m[i].key = key
    THEN v.m[CHOOSE i \in 1..Len(v.m) : v.m[i].key = key].val
    ELSE JNull

\* Value::as_object and Value::as_str, as Option.
as_object(v) == IF v.k = "obj" THEN [some |-> TRUE, v |-> v.m]
                ELSE [some |-> FALSE, v |-> <<>>]

as_str(v) == IF v.k = "str" THEN [some |-> TRUE, v |-> v.s]
             ELSE [some |-> FALSE, v |-> <<>>]

----------------------------------------------------------------------------
(* str::parse::<f64>() and str::parse::<u64>() on the texts modelled:      *)
(* decimal digits with an optional sign.                                   *)

Digits == {"0", "1", "2", "3", "4", "5", "6", "7", "8", "9"}

DigitVal(c) ==
    CASE c = "0" -> 0 [] c = "1" -> 1 [] c = "2" -> 2 [] c = "3" -> 3
      [] c = "4" -> 4 [] c = "5" -> 5 [] c = "6" -> 6 [] c = "7" -> 7
      [] c = "8" -> 8 [] c = "9" -> 9

RECURSIVE DecimalVal(_, _)
DecimalVal(t, acc) ==
    IF t = <<>> THEN acc
    ELSE DecimalVal(Tail(t), acc * 10 + DigitVal(Head(t)))

AllDigits(t) == t # <<>> /\ \A i \in 1..Len(t) : t[i] \in Digits

\* u64: an optional "+", then digits; a "-" is an error.
ParseU64(t) ==
    LET body == IF t # <<>> /\ Head(t) = "+" THEN Tail(t) ELSE t
    IN  IF AllDigits(body) THEN [ok |-> TRUE, v |-> DecimalVal(body, 0)]
        ELSE [ok |-> FALSE, v |-> 0]

\* f64: an optional "+" or "-", then digits.
ParseF64(t) ==
    LET signed == t # <<>> /\ Head(t) \in {"+", "-"}
        body == IF signed THEN Tail(t) ELSE t
    IN  IF AllDigits(body)
        THEN [ok |-> TRUE,
              v |-> IF signed /\ Head(t) = "-" THEN 0 - DecimalVal(body, 0)
                    ELSE DecimalVal(body, 0)]
        ELSE [ok |-> FALSE, v |-> 0]

\* Result::unwrap_or
unwrap_or(r, default) == IF r.ok THEN r.v ELSE default

----------------------------------------------------------------------------
(* parse_alpha_vantage_response *)

StockData(symbol, price, volume, timestamp) ==
    [symbol |-> symbol, price |-> price, volume |-> volume,
     timestamp |-> timestamp]

Ok(v) == [ok |-> TRUE, v |-> v, err |-> "none"]

Err(e) == [ok |-> FALSE, v |-> <<>>, err |-> e]

\* The body of the for loop over the time series, from entry i on: each `?`
\* returns its error at once, in the order symbol, price, volume.
RECURSIVE ParseEntries(_, _, _, _)
ParseEntries(resp, time_series, i, acc) ==
    IF i > Len(time_series) THEN Ok(acc)
    ELSE
      LET timestamp == time_series[i].key
          data == time_series[i].val
          symbol == as_str(JIndex(JIndex(resp, "Meta Data"), "2. Symbol"))
          open == as_str(JIndex(data, "1. open"))
          volume == as_str(JIndex(data, "5. volume"))
      IN  IF ~symbol.some THEN Err("ParseError: Missing symbol")
          ELSE IF ~open.some THEN Err("ParseError: Missing price")
          ELSE IF ~volume.some THEN Err("ParseError: Missing volume")
          ELSE ParseEntries(resp, time_series, i + 1,
                 Append(acc, StockData(symbol.v,
                                       unwrap_or(ParseF64(open.v), 0),
                                       unwrap_or(ParseU64(volume.v), 0),
                                       timestamp)))

\* parse_alpha_vantage_response with the loop starting one entry late.
parse_skipping_first(resp) ==
    LET time_series == as_object(JIndex(resp, "Time Series (1min)"))
    IN  IF ~time_series.some THEN Err("ParseError: Invalid JSON format")
        ELSE ParseEntries(resp, time_series.v, 2, <<>>)

parse_alpha_vantage_response(resp) ==
    LET time_series == as_object(JIndex(resp, "Time Series (1min)"))
    IN  IF ~time_series.some THEN Err("ParseError: Invalid JSON format")
        ELSE ParseEntries(resp, time_series.v, 1, <<>>)

----------------------------------------------------------------------------
(* preprocess_data *)

\* `stock.volume as f64`: exact for every u64 below 2^53, which covers the
\* volumes modelled.
U64AsF64(v) == v

\* data.iter().map(|stock| vec![stock.price, stock.volume as f64]).collect()
FeatureRows(data) ==
    [i \in 1..Len(data) |-> <<data[i].price, U64AsF64(data[i].volume)>>]

\* Label with the comparison written <= instead of <: equal prices labelled 1.
LabelNonStrict(cur, next) == IF cur.price <= next.price THEN 1 ELSE 0

\* The label pushed for the pair (data[i], data[i + 1]).
Label(cur, next) == IF cur.price < next.price THEN 1 ELSE 0

\* for i in 0..data.len() - 1 { ... target.push(..) }, from index i on
\* (indices are 1-based here).
RECURSIVE TargetLoop(_, _, _)
TargetLoop(data, i, acc) ==
    IF i > Len(data) - 1 THEN acc
    ELSE TargetLoop(data, i + 1, Append(acc, Label(data[i], data[i + 1])))

\* features.into_iter().flatten().collect()
RECURSIVE Flatten(_)
Flatten(rows) ==
    IF rows = <<>> THEN <<>> ELSE Head(rows) \o Flatten(Tail(rows))

\* Array2::from_shape_vec((nrows, ncols), v): an error unless v holds
\* nrows * ncols elements.
from_shape_vec(nrows, ncols, v) ==
    IF Len(v) # nrows * ncols THEN [ok |-> FALSE, v |-> <<>>]
    ELSE [ok |-> TRUE,
          v |-> [r \in 1..nrows |-> SubSeq(v, (r - 1) * ncols + 1, r * ncols)]]

Returned(f, t) == [k |-> "return", features |-> f, target |-> t, msg |-> "none"]

Panicked(msg) == [k |-> "panic", features |-> <<>>, target |-> <<>>, msg |-> msg]

\* On an empty vector `data.len() - 1` underflows: a build with overflow
\* checks panics there, a build without them wraps to usize::MAX and panics
\* at data[0] in the first iteration. Either build panics.
preprocess_data(data) ==
    IF Len(data) = 0 THEN Panicked("panic: preprocess_data")
    ELSE
      LET rows == FeatureRows(data)
          tgt == TargetLoop(data, 1, <<>>)
          arr == from_shape_vec(Len(rows), Len(rows[1]), Flatten(rows))
      IN  IF ~arr.ok THEN Panicked("panic: preprocess_data")
          ELSE Returned(arr.v, tgt)

----------------------------------------------------------------------------
(* train_model and predict, over linfa's GaussianNb *)

NoModel == [trained |-> FALSE, classes |-> {}]

Range(f) == {f[i] : i \in DOMAIN f}

Dataset(records, targets) == [records |-> records, targets |-> targets]

FitOk(m) == [ok |-> TRUE, model |-> m, err |-> "none"]

FitErr(e) == [ok |-> FALSE, model |-> NoModel, err |-> e]

\* GaussianNb::params().fit(&dataset): the library returns a model of the
\* classes of the targets, or a NaiveBayesError.
GaussianNbFit(dataset) ==
    {FitOk([trained |-> TRUE, classes |-> Range(dataset.targets)]),
     FitErr("linfa")}

\* train_model, given what the library's fit returned: `?` converts its
\* error with From<NaiveBayesError>.
train_model(fitted) ==
    IF fitted.ok THEN FitOk(fitted.model) ELSE FitErr("NaiveBayesError")

\* model.predict(features): one label of the model's classes per row.
predict(mdl, feats) == [1..Len(feats) -> mdl.classes]

----------------------------------------------------------------------------
(* calculate_accuracy *)

NoF64 == [k |-> "unset", n |-> 0, d |-> 0]

NaN == [k |-> "nan", n |-> 0, d |-> 0]

Infinity == [k |-> "inf", n |-> 0, d |-> 0]

RECURSIVE Gcd(_, _)
Gcd(a, b) == IF b = 0 THEN a ELSE Gcd(b, a % b)

\* F64Div with a guard that turns a division by zero into 0.0.
F64DivGuarded(n, d) ==
    IF d = 0 THEN [k |-> "num", n |-> 0, d |-> 1]
    ELSE [k |-> "num", n |-> n \div Gcd(n, d), d |-> d \div Gcd(n, d)]

\* n as f64 / d as f64 for two usize: 0/0 is NaN, n/0 is infinite.
F64Div(n, d) ==
    IF d = 0 THEN (IF n = 0 THEN NaN ELSE Infinity)
    ELSE [k |-> "num", n |-> n \div Gcd(n, d), d |-> d \div Gcd(n, d)]

Min(a, b) == IF a < b THEN a ELSE b

\* predictions.iter().zip(target.iter()).filter(|(p, a)| p == a).count():
\* zip ends with the shorter of the two.
RECURSIVE ZipCount(_, _, _)
ZipCount(p, a, i) ==
    IF i > Min(Len(p), Len(a)) THEN 0
    ELSE (IF p[i] = a[i] THEN 1 ELSE 0) + ZipCount(p, a, i + 1)

\* calculate_accuracy with the filter inverted: it counts the mismatches.
accuracy_of_mismatches(preds, tgt) ==
    F64Div(Min(Len(preds), Len(tgt)) - ZipCount(preds, tgt, 1), Len(tgt))

calculate_accuracy(preds, tgt) == F64Div(ZipCount(preds, tgt, 1), Len(tgt))

----------------------------------------------------------------------------
(* The responses and direct inputs explored *)

Timestamps == <<"2023-03-10 16:00:00", "2023-03-10 16:01:00",
                "2023-03-10 16:02:00", "2023-03-10 16:03:00",
                "2023-03-10 16:04:00", "2023-03-10 16:05:00">>

IBM == <<"I", "B", "M">>

AAPL == <<"A", "A", "P", "L">>

Symbols == {IBM, AAPL}

\* "9" and "10" parse; "x" does not and falls back to 0.0.
PriceTexts == {<<"9">>, <<"1", "0">>, <<"x">>}

\* "7" parses; "-1" is no u64 and falls back to 0.
VolumeTexts == {<<"7">>, <<"-", "1">>}

Entry(open, volume) ==
    JObj(<<Member("1. open", open), Member("5. volume", volume)>>)

WellFormedEntries == {Entry(JStr(p), JStr(v)) : p \in PriceTexts, v \in VolumeTexts}

\* An entry without "1. open", with a numeric "1. open", without
\* "5. volume", with a numeric "5. volume", and an entry that is no object.
MalformedEntries ==
    {JObj(<<Member("5. volume", JStr(<<"7">>))>>),
     Entry(JNum, JStr(<<"7">>)),
     JObj(<<Member("1. open", JStr(<<"9">>))>>),
     Entry(JStr(<<"9">>), JNum),
     JNum}

EntryValues == WellFormedEntries \cup MalformedEntries

\* The time series of the entries f[1..n], keyed by the first n timestamps.
SeriesOf(n, f) == JObj([i \in 1..n |-> Member(Timestamps[i], f[i])])

\* A member that the record does not hold.
Absent == [k |-> "absent", s |-> <<>>, m |-> <<>>]

WithMember(key, val) == IF val = Absent THEN <<>> ELSE <<Member(key, val)>>

\* "Meta Data" with a symbol, without one, with a symbol that is no string,
\* or no "Meta Data" at all.
MetaValues ==
    {JObj(<<Member("2. Symbol", JStr(sym))>>) : sym \in Symbols}
    \cup {JObj(<<>>), JObj(<<Member("2. Symbol", JNum)>>), Absent}

ResponseOf(md, ts) ==
    JObj(WithMember("Meta Data", md) \o WithMember("Time Series (1min)", ts))

\* The responses without a time-series object, and one that is no object.
OtherResponses ==
    {ResponseOf(md, ts) : md \in MetaValues, ts \in {Absent, JStr(<<"x">>)}}
    \cup {JNull}

Prices == {0, 9, 10}

Volumes == {0, 7}

\* Every Vec<StockData> of up to MaxEntries observations of one symbol.
StockVecs ==
    UNION {{[i \in 1..n |-> StockData(IBM, f[i][1], f[i][2], Timestamps[i])] :
               f \in [1..n -> Prices \X Volumes]} : n \in 0..MaxEntries}

Labels == {0, 1}

LabelVecs == UNION {[1..n -> Labels] : n \in 0..MaxLen}

FeatureMatrices == UNION {[1..n -> {<<9, 7>>, <<10, 0>>}] : n \in 0..MaxLen}

----------------------------------------------------------------------------
(* main *)

Init ==
    /\ pc = "fetch"
    /\ response = JNull
    /\ stock_data = <<>>
    /\ features = <<>>
    /\ target = <<>>
    /\ model = NoModel
    /\ predictions = <<>>
    /\ accuracy = NoF64
    /\ outcome = "running"
    /\ err = "none"
    /\ stdout = <<>>
    /\ files = {}

\* `return Err(e)` and `?` on an Err: main ends with the error.
Fail(e) == /\ outcome' = "Err" /\ err' = e /\ pc' = "exit"

\* A panic (an underflow, an index out of range, a failed expect) ends the
\* process.
Panic(msg) == /\ outcome' = "panic" /\ err' = msg /\ pc' = "exit"

\* fetch_stock_data(symbol, api_key).await?, then the println of the data:
\* the request or its JSON decoding fails (a reqwest::Error), or the
\* response is parsed.
Received(r) ==
    LET parsed == parse_alpha_vantage_response(r)
    IN  /\ response' = r
        /\ IF parsed.ok
           THEN /\ stock_data' = parsed.v
                /\ stdout' = Append(stdout, "Fetched data")
                /\ pc' = "preprocess"
                /\ UNCHANGED <<outcome, err>>
           ELSE /\ Fail(parsed.err)
                /\ UNCHANGED <<stock_data, stdout>>

Fetch ==
    /\ pc = "fetch"
    /\ \/ /\ Fail("ReqwestError")
          /\ UNCHANGED <<response, stock_data, stdout>>
       \/ \E md \in MetaValues : \E n \in 0..MaxEntries :
            \E f \in [1..n -> EntryValues] :
               Received(ResponseOf(md, SeriesOf(n, f)))
       \/ \E r \in OtherResponses : Received(r)
    /\ UNCHANGED <<features, target, model, predictions, accuracy, files>>

\* let (features, target) = preprocess_data(stock_data.clone());
Preprocess ==
    /\ pc = "preprocess"
    /\ LET r == preprocess_data(stock_data)
       IN  IF r.k = "return"
           THEN /\ features' = r.features
                /\ target' = r.target
                /\ pc' = "class_check"
                /\ UNCHANGED <<outcome, err>>
           ELSE /\ Panic(r.msg)
                /\ UNCHANGED <<features, target>>
    /\ UNCHANGED <<response, stock_data, model, predictions, accuracy,
                   stdout, files>>

\* The HashSet of the target's values.
distinct_classes(tgt) == Range(tgt)

\* ClassCheck without the return: the error is recorded and the run goes on
\* to train.
ClassCheckFallThrough ==
    /\ pc = "class_check"
    /\ IF Cardinality(distinct_classes(target)) < 2
       THEN /\ outcome' = "Err"
            /\ err' = "NotEnoughClasses"
            /\ pc' = "train"
       ELSE /\ pc' = "train"
            /\ UNCHANGED <<outcome, err>>
    /\ UNCHANGED <<response, stock_data, features, target, model,
                   predictions, accuracy, stdout, files>>

\* if distinct_classes.len() < 2 { return Err(CustomError::NotEnoughClasses); }
ClassCheck ==
    /\ pc = "class_check"
    /\ IF Cardinality(distinct_classes(target)) < 2
       THEN Fail("NotEnoughClasses")
       ELSE /\ pc' = "train"
            /\ UNCHANGED <<outcome, err>>
    /\ UNCHANGED <<response, stock_data, features, target, model,
                   predictions, accuracy, stdout, files>>

\* let model = train_model(&features, &target)?;  (the full feature matrix)
Train ==
    /\ pc = "train"
    /\ \E fitted \in GaussianNbFit(Dataset(features, target)) :
         LET r == train_model(fitted)
         IN  IF r.ok
             THEN /\ model' = r.model
                  /\ pc' = "predict"
                  /\ UNCHANGED <<outcome, err>>
             ELSE /\ Fail(r.err)
                  /\ UNCHANGED model
    /\ UNCHANGED <<response, stock_data, features, target, predictions,
                   accuracy, stdout, files>>

\* let predictions = predict(&model, &features);  (the full feature matrix)
Predict ==
    /\ pc = "predict"
    /\ \E p \in predict(model, features) : predictions' = p
    /\ pc' = "accuracy"
    /\ UNCHANGED <<response, stock_data, features, target, model, accuracy,
                   outcome, err, stdout, files>>

\* let accuracy = calculate_accuracy(&predictions, &target); println!(..)
Accuracy ==
    /\ pc = "accuracy"
    /\ accuracy' = calculate_accuracy(predictions, target)
    /\ stdout' = Append(stdout, "Naive Bayes Accuracy")
    /\ pc' = "plot_accuracy"
    /\ UNCHANGED <<response, stock_data, features, target, model,
                   predictions, outcome, err, files>>

\* plot_accuracy(accuracy).expect(..): the bitmap backend writes
\* accuracy.png; when drawing fails the file may or may not have been
\* written before the expect panics.
PlotAccuracy ==
    /\ pc = "plot_accuracy"
    /\ \/ /\ files' = files \cup {"accuracy.png"}
          /\ pc' = "plot_stock_data"
          /\ UNCHANGED <<outcome, err>>
       \/ /\ files' \in {files, files \cup {"accuracy.png"}}
          /\ Panic("panic: Failed to create accuracy plot")
    /\ UNCHANGED <<response, stock_data, features, target, model,
                   predictions, accuracy, stdout>>

\* plot_stock_data(&stock_data).expect(..), then Ok(()).
PlotStockData ==
    /\ pc = "plot_stock_data"
    /\ \/ /\ files' = files \cup {"stock_data.png"}
          /\ outcome' = "Ok"
          /\ pc' = "exit"
          /\ UNCHANGED err
       \/ /\ files' \in {files, files \cup {"stock_data.png"}}
          /\ Panic("panic: Failed to create stock data plot")
    /\ UNCHANGED <<response, stock_data, features, target, model,
                   predictions, accuracy, stdout>>

Next ==
    \/ Fetch
    \/ Preprocess
    \/ ClassCheck
    \/ Train
    \/ Predict
    \/ Accuracy
    \/ PlotAccuracy
    \/ PlotStockData

Spec == Init /\ [][Next]_vars

----------------------------------------------------------------------------
(* The functions called directly, as the tests module calls them: the      *)
(* input is drawn at the start and one call is made.                       *)

Idle ==
    /\ model = NoModel
    /\ accuracy = NoF64
    /\ outcome = "running"
    /\ err = "none"
    /\ stdout = <<>>
    /\ files = {}

TestInit ==
    /\ Idle
    /\ \/ /\ pc = "call_parse"
          /\ \/ \E md \in MetaValues : \E n \in 0..MaxEntries :
                  \E f \in [1..n -> EntryValues] :
                     response = ResponseOf(md, SeriesOf(n, f))
             \/ response \in OtherResponses
          /\ stock_data = <<>> /\ features = <<>> /\ target = <<>>
          /\ predictions = <<>>
       \/ /\ pc = "call_preprocess"
          /\ stock_data \in StockVecs
          /\ response = JNull /\ features = <<>> /\ target = <<>>
          /\ predictions = <<>>
       \/ /\ pc = "call_train"
          /\ features \in FeatureMatrices
          /\ target \in LabelVecs
          /\ response = JNull /\ stock_data = <<>> /\ predictions = <<>>
       \/ /\ pc = "call_accuracy"
          /\ predictions \in LabelVecs
          /\ target \in LabelVecs
          /\ response = JNull /\ stock_data = <<>> /\ features = <<>>

\* let result = parse_alpha_vantage_response(response);
CallParse ==
    /\ pc = "call_parse"
    /\ LET r == parse_alpha_vantage_response(response)
       IN  /\ stock_data' = r.v
           /\ outcome' = IF r.ok THEN "Ok" ELSE "Err"
           /\ err' = r.err
    /\ pc' = "parse_returned"
    /\ UNCHANGED <<response, features, target, model, predictions, accuracy,
                   stdout, files>>

\* let (features, target) = preprocess_data(stock_data);
CallPreprocess ==
    /\ pc = "call_preprocess"
    /\ LET r == preprocess_data(stock_data)
       IN  /\ features' = r.features
           /\ target' = r.target
           /\ outcome' = IF r.k = "return" THEN "Ok" ELSE "panic"
           /\ err' = r.msg
    /\ pc' = "preprocess_returned"
    /\ UNCHANGED <<response, stock_data, model, predictions, accuracy,
                   stdout, files>>

\* let result = train_model(&features, &target);
CallTrain ==
    /\ pc = "call_train"
    /\ \E fitted \in GaussianNbFit(Dataset(features, target)) :
         LET r == train_model(fitted)
         IN  /\ model' = r.model
             /\ outcome' = IF r.ok THEN "Ok" ELSE "Err"
             /\ err' = r.err
    /\ pc' = "train_returned"
    /\ UNCHANGED <<response, stock_data, features, target, predictions,
                   accuracy, stdout, files>>

\* let accuracy = calculate_accuracy(&predictions, &target);
CallAccuracy ==
    /\ pc = "call_accuracy"
    /\ accuracy' = calculate_accuracy(predictions, target)
    /\ outcome' = "Ok"
    /\ pc' = "accuracy_returned"
    /\ UNCHANGED <<response, stock_data, features, target, model,
                   predictions, err, stdout, files>>

TestNext ==
    \/ CallParse
    \/ CallPreprocess
    \/ CallTrain
    \/ CallAccuracy

TestSpec == TestInit /\ [][TestNext]_vars

----------------------------------------------------------------------------
(* Properties *)

\* C1: for every sequence of N >= 2 observations preprocess_data returns N
\* feature rows, row i being [price[i], volume[i]], and N-1 labels, label i
\* being 1 exactly when price[i] < price[i+1] (strictly) and 0 otherwise.
C1_PreprocessShapeAndLabels ==
    (pc = "preprocess_returned" /\ Len(stock_data) >= 2) =>
        /\ outcome = "Ok"
        /\ Len(features) = Len(stock_data)
        /\ \A i \in 1..Len(stock_data) :
              features[i] = <<stock_data[i].price, stock_data[i].volume>>
        /\ Len(target) = Len(stock_data) - 1
        /\ \A i \in 1..(Len(stock_data) - 1) :
              /\ target[i] \in {0, 1}
              /\ target[i] = 1 <=> stock_data[i].price < stock_data[i + 1].price

\* A call on three observations whose first two prices are equal (label 0)
\* and whose last price is higher (label 1).
C1_Witness ==
    /\ pc = "preprocess_returned"
    /\ Len(stock_data) = 3
    /\ stock_data[1].price = stock_data[2].price
    /\ stock_data[2].price < stock_data[3].price
    /\ target = <<0, 1>>

\* C2: for every well-formed record with at least 2 time-series entries
\* parse_alpha_vantage_response succeeds, returns one observation per entry,
\* and every observation carries the symbol the record declares.
C2_ParseWellFormed ==
    LET sym == JIndex(JIndex(response, "Meta Data"), "2. Symbol")
        ts == JIndex(response, "Time Series (1min)")
    IN  (/\ pc = "parse_returned"
         /\ sym.k = "str"
         /\ ts.k = "obj"
         /\ Len(ts.m) >= 2
         /\ \A i \in 1..Len(ts.m) : ts.m[i].val \in WellFormedEntries) =>
            /\ outcome = "Ok"
            /\ Len(stock_data) = Len(ts.m)
            /\ \A i \in 1..Len(ts.m) : stock_data[i].symbol = sym.s

\* A well-formed record of three entries declaring AAPL has been parsed.
C2_Witness ==
    /\ pc = "parse_returned"
    /\ \E f \in [1..3 -> WellFormedEntries] :
          response = ResponseOf(JObj(<<Member("2. Symbol", JStr(AAPL))>>),
                                SeriesOf(3, f))
    /\ Len(stock_data) = 3

\* The vector v with its positions rearranged by sigma.
Permuted(v, sigma) == [i \in 1..Len(v) |-> v[sigma[i]]]

\* C3: for predicted and actual of the same length N > 0 calculate_accuracy
\* returns (number of i with predicted[i] = actual[i]) / N, a value in
\* [0, 1]; it is 1 when the two vectors are equal, and it is unchanged when
\* one permutation is applied to both vectors.
C3_AccuracyIsMatchRatio ==
    (pc = "accuracy_returned" /\ Len(predictions) = Len(target)
        /\ Len(target) > 0) =>
        LET N == Len(target)
            matches == Cardinality({i \in 1..N : predictions[i] = target[i]})
        IN  /\ accuracy.k = "num"
            /\ accuracy.d > 0
            /\ accuracy.n * N = matches * accuracy.d
            /\ 0 <= accuracy.n /\ accuracy.n <= accuracy.d
            /\ predictions = target => accuracy.n = accuracy.d
            /\ \A sigma \in Permutations(1..N) :
                  calculate_accuracy(Permuted(predictions, sigma),
                                     Permuted(target, sigma)) = accuracy

\* The case of tests::test_calculate_accuracy: [1,0,1,1] against [1,0,0,1]
\* scores 3/4.
C3_Witness ==
    /\ pc = "accuracy_returned"
    /\ predictions = <<1, 0, 1, 1>>
    /\ target = <<1, 0, 0, 1>>
    /\ accuracy = [k |-> "num", n |-> 3, d |-> 4]

\* C4: the pipeline fits and predicts only on as many feature rows as there
\* are labels: a run whose feature matrix has more rows than there are
\* labels fails before the fit, so it never holds a fitted model, a
\* prediction vector or an accuracy.
C4_FullMatrixRejected ==
    (model.trained \/ predictions # <<>> \/ accuracy # NoF64) =>
        Len(features) = Len(target)

\* C5: for every observation sequence of length 0 or 1 preprocess_data
\* fails with the error value InsufficientData: it returns no pair and does
\* not abort in another way.
C5_ShortInputIsInsufficientData ==
    (pc = "preprocess_returned" /\ Len(stock_data) < 2) =>
        /\ outcome = "Err"
        /\ err = "InsufficientData"

\* C6: for vectors of different lengths calculate_accuracy fails with
\* LengthMismatch and returns no accuracy value.
C6_LengthMismatchRejected ==
    (pc = "accuracy_returned" /\ Len(predictions) # Len(target)) =>
        /\ outcome = "Err"
        /\ err = "LengthMismatch"
        /\ accuracy = NoF64

ParseErrors == {"ParseError: Invalid JSON format", "ParseError: Missing symbol",
                "ParseError: Missing price", "ParseError: Missing volume"}

\* The record lacks the symbol, or its time series is absent or no object,
\* or an entry's "1. open" or "5. volume" is absent or no string.
Malformed(resp) ==
    LET ts == JIndex(resp, "Time Series (1min)")
    IN  \/ JIndex(JIndex(resp, "Meta Data"), "2. Symbol").k = "null"
        \/ ts.k # "obj"
        \/ \E i \in 1..Len(ts.m) :
              \/ JIndex(ts.m[i].val, "1. open").k # "str"
              \/ JIndex(ts.m[i].val, "5. volume").k # "str"

\* C7: parse_alpha_vantage_response fails with a parse error, and returns no
\* observations, for every record that lacks the symbol, or whose time
\* series is absent or no object, or one of whose entries lacks a string
\* "1. open" or "5. volume"; for every number of entries, zero included.
C7_MalformedRejected ==
    (pc = "parse_returned" /\ Malformed(response)) =>
        /\ outcome = "Err"
        /\ err \in ParseErrors

\* C8: whenever the labels hold fewer than 2 distinct values, every call of
\* train_model fails with NotEnoughClasses and produces no model.
C8_TrainRejectsOneClass ==
    (pc = "train_returned" /\ Cardinality(Range(target)) < 2) =>
        /\ outcome = "Err"
        /\ err = "NotEnoughClasses"
        /\ ~model.trained

\* The stages of main in their order; the two plots are the render stage.
Rank(p) ==
    CASE p = "fetch" -> 0
      [] p = "preprocess" -> 1
      [] p = "class_check" -> 2
      [] p = "train" -> 3
      [] p = "predict" -> 4
      [] p = "accuracy" -> 5
      [] p = "plot_accuracy" -> 6
      [] p = "plot_stock_data" -> 7
      [] p = "exit" -> 8

\* The errors each stage can end the run with.
StageErrors(p) ==
    CASE p = "fetch" -> ParseErrors \cup {"ReqwestError"}
      [] p = "preprocess" -> {"panic: preprocess_data"}
      [] p = "class_check" -> {"NotEnoughClasses"}
      [] p = "train" -> {"NaiveBayesError"}
      [] p = "plot_accuracy" -> {"panic: Failed to create accuracy plot"}
      [] p = "plot_stock_data" -> {"panic: Failed to create stock data plot"}
      [] OTHER -> {}

\* The errors of the stages before the evaluation.
EarlyErrors ==
    UNION {StageErrors(p) : p \in {"fetch", "preprocess", "class_check", "train"}}

\* One step of a run of main: a stage is followed by the next stage or by
\* the end of the run; a failure ends the run with the error of the stage
\* that failed; nothing happens after the end; and a run that failed before
\* the evaluation has no accuracy, printed no accuracy and wrote no plot.
StageStep ==
    /\ pc = "exit" => UNCHANGED vars
    /\ pc' # pc => (pc' = "exit" \/ Rank(pc') = Rank(pc) + 1)
    /\ (outcome' = "running") <=> (pc' # "exit")
    /\ (pc # "exit" /\ outcome' \in {"Err", "panic"}) => err' \in StageErrors(pc)
    /\ (outcome' = "Ok") => (pc = "exit" \/ pc = "plot_stock_data")
    /\ (outcome' \in {"Err", "panic"} /\ err' \in EarlyErrors) =>
          /\ accuracy' = NoF64
          /\ files' = {}
          /\ \A i \in 1..Len(stdout') : stdout'[i] # "Naive Bayes Accuracy"

\* C9: in every run of main the stages occur in the order parse, build,
\* class check, fit, predict, evaluate, render, each at most once; once a
\* stage fails the run ends with that error and no later stage executes, so
\* no accuracy is computed or printed and no plot is produced after a
\* failure of an earlier stage.
C9_StagesInOrderAndFailFast == [][StageStep]_vars

\* A run that parsed, built and passed the class check, and whose fit
\* failed: it ended there, with no accuracy and no plot.
C9_Witness ==
    /\ pc = "exit"
    /\ outcome = "Err"
    /\ err = "NaiveBayesError"
    /\ Len(target) >= 2
    /\ accuracy = NoF64
    /\ files = {}

\* C10: when the actual label vector is empty calculate_accuracy returns
\* NaN (0/0) or fails with EmptyInput; it never returns 0 or 1.
C10_EmptyTargetIsNaN ==
    (pc = "accuracy_returned" /\ Len(target) = 0) =>
        /\ \/ accuracy = NaN
           \/ outcome = "Err" /\ err = "EmptyInput" /\ accuracy = NoF64
        /\ accuracy # [k |-> "num", n |-> 0, d |-> 1]
        /\ accuracy # [k |-> "num", n |-> 1, d |-> 1]

\* calculate_accuracy was called with predictions and no actual labels and
\* returned NaN.
C10_Witness ==
    /\ pc = "accuracy_returned"
    /\ target = <<>>
    /\ Len(predictions) = 2
    /\ accuracy = NaN

====
